---- MODULE Spec2Model ----
(***************************************************************************)
(* Time tracking of the client-onboarding / project-tracking application:  *)
(* the time_entries table with its row-level policies and BEFORE triggers  *)
(* (setup-all.sql) and the browser handlers that write to it               *)
(* (timer-widget.tsx, project-time-tracker.tsx).                           *)
(*                                                                         *)
(* Time is counted in ticks, TicksPerSec ticks to the second, so that the  *)
(* whole-second cast of calculate_duration is a real conversion.  The      *)
(* database clock is `now`; a browser tab reads its own clock, which is    *)
(* the database clock plus the tab's offset clientSkew.                    *)
(* The columns created_at, updated_at, milestone_id, task_id, description  *)
(* are written by the handlers and read by none of the logic below; they   *)
(* are left out of the rows.  The totals that a project page shows are     *)
(* read by no handler: their refresh is a step of SpecTotals only.         *)
(*                                                                         *)
(* Two further parts stand beside it and share no state with it: the       *)
(* notification centre of a signed-in user (notification.store.tsx,        *)
(* SpecNotifications) and the edge function send-notification-email        *)
(* (SpecMail).                                                             *)
(***************************************************************************)
EXTENDS Integers, FiniteSets, Sequences, TLC

VARIABLES
    entries,    \* the committed rows of time_entries
    now,        \* the database clock (NOW()), in ticks
    nextId,     \* the next fresh id (uuid_generate_v4 never repeats one)
    timer,      \* per browser tab: the id of the TimerWidget's `timer` state
    listed,     \* per browser tab: the ProjectTimeTracker's `entries` state
    pending,    \* per browser tab: its insert transaction that has not committed
    last,       \* the last handler that ran and what it reported to the user
    summary,    \* per browser tab: the ProjectTimeTracker's totals (totalHours,
                \* billableHours, billableAmount), <<>> before they arrive
    notifRows,      \* the signed-in user's rows of the notifications table
    notifications,  \* NotificationProvider's `notifications` state, newest first
    unreadCount,    \* NotificationProvider's `unreadCount` state
    feed,           \* realtime postgres_changes events on their way to the tab
    responses,      \* answers to fetchNotifications' select on their way to the tab
    prefs,          \* per user: the email_enabled of the notification_preferences row
    outbox,         \* the calls send-notification-email made to the email API
    reply           \* the request send-notification-email served last, and its answer

notifVars == <<notifRows, notifications, unreadCount, feed, responses>>
mailVars == <<prefs, outbox, reply>>
vars == <<entries, now, nextId, timer, listed, pending, last, summary,
          notifRows, notifications, unreadCount, feed, responses, prefs, outbox, reply>>

----------------------------------------------------------------------------
(* Bounds of the model *)

MaxNow == 1
MaxEntries == 2
MaxApiRows == 1
TicksPerSec == 2
MaxTotalsRows == 2


(* The form's start time is a whole minute; the duration field takes       *)
(* multiples of 0.25 h from 0.25 to 24 (step, min, max of the input).      *)
ManualMinutes == {0}
DurationQuarters == {1}
ManualRates == {<<>>}

(* Values typed into the duration field that its min and max refuse: 0 h   *)
(* and 25 h, in quarter hours.                                             *)
OutOfRangeQuarters == {0, 100}

----------------------------------------------------------------------------
(* Optional values: <<>> is SQL NULL / JS null, <<x>> a present value *)

Null == <<>>
Some(x) == <<x>>
Val(o) == o[1]

----------------------------------------------------------------------------
(* The fixed part of the database and the sessions *)

Users == {"u1", "u2"}
ProjectIds == {"p1", "p2"}
Clients == {"c1", "c2", "c3"}

(* A tab left open on the page of a project that has been deleted since    *)
(* (the rows of a deleted project go with it: ON DELETE CASCADE).          *)
StaleClients == {"c4"}
AllClients == Clients \cup StaleClients

(* projects.user_id: the owner of each project *)
projectOwner == [p \in ProjectIds |-> IF p = "p1" THEN "u1" ELSE "u2"]

(* project_assignments: u1 is a member of u2's project p2; u2 has no       *)
(* assignment to u1's project p1.                                          *)
projectAssignments == {<<"p2", "u1">>}

(* projects.hourly_rate in cents (DECIMAL(10,2)): p1 bills 50.00 an hour,  *)
(* p2 has no rate.                                                         *)
projectRate == [p \in ProjectIds |-> IF p = "p1" THEN <<5000>> ELSE <<>>]

(* the signed-in user of each tab (useAuth) and the project page it shows: *)
(* c1 is the owner's tab on p1, c2 a member's tab on p2, c3 the tab of a   *)
(* user on a project whose owner has not (or no longer) assigned it to     *)
(* them, c4 the tab on a deleted project.                                  *)
clientUser == [c \in AllClients |-> IF c = "c3" THEN "u2" ELSE "u1"]
clientProject ==
    [c \in AllClients |-> IF c = "c2" THEN "p2" ELSE IF c = "c4" THEN "p3" ELSE "p1"]

(* new Date() in a tab: the offset of the tab's clock from the database   *)
(* clock, in ticks                                                         *)
clientSkew == [c \in AllClients |-> IF c = "c2" THEN 1 ELSE 0]
ClientNow(c, t) == t + clientSkew[c]

SecondsPerHour == 3600
SecondsPerMinute == 60
QuartersPerHour == 4

(* The duration input of the manual-entry form: min="0.25" max="24"        *)
(* step="0.25".  The browser fires the form's submit event, and with it    *)
(* handleSubmit, only when the typed value passes these; the typed value   *)
(* is counted in quarter hours, which is the step.                         *)
MinDurationQuarters == 1
MaxDurationHours == 24

FormAcceptsAll(q) == TRUE

FormAccepts(q) ==
    /\ q >= MinDurationQuarters
    /\ q <= MaxDurationHours * QuartersPerHour

----------------------------------------------------------------------------
(* calculate_duration: EXTRACT(EPOCH FROM (end - start))::INTEGER.  The    *)
(* cast of a numeric to integer rounds to the nearest whole number, ties   *)
(* away from zero.                                                         *)

RoundSecBroken(d) == d

RoundSec(d) ==
    IF d >= 0
    THEN (2 * d + TicksPerSec) \div (2 * TicksPerSec)
    ELSE 0 - ((2 * (0 - d) + TicksPerSec) \div (2 * TicksPerSec))

CalculateDurationNoFlag(new) ==
    IF new.end_time # Null
    THEN [new EXCEPT !.duration_seconds =
                        Some(RoundSec(Val(new.end_time) - new.start_time))]
    ELSE new

CalculateDurationStale(new) ==
    IF new.end_time # Null /\ new.duration_seconds = Null
    THEN [new EXCEPT !.duration_seconds =
                        Some(RoundSec(Val(new.end_time) - new.start_time)),
                     !.is_running = FALSE]
    ELSE new

CalculateDuration(new) ==
    IF new.end_time # Null
    THEN [new EXCEPT !.duration_seconds =
                        Some(RoundSec(Val(new.end_time) - new.start_time)),
                     !.is_running = FALSE]
    ELSE new

(* The rows a statement of user `auth` may update or delete: the policies  *)
(* "Users can update own time entries" / "Users can delete own time        *)
(* entries" (USING auth.uid() = user_id).                                  *)
OwnRows(es, auth) == {r \in es : r.user_id = auth}

(* ensure_single_running_timer: the UPDATE it issues is itself an UPDATE   *)
(* of time_entries, so calculate_duration runs on every row it stops.      *)
ForceStopNone(es, new, t) == es

ForceStopNoTrigger(es, new, t) ==
    IF new.is_running
    THEN {IF r.user_id = new.user_id /\ r.is_running /\ r.id # new.id
          THEN [r EXCEPT !.is_running = FALSE, !.end_time = Some(t)]
          ELSE r : r \in es}
    ELSE es

ForceStopFlagOnly(es, new, t) ==
    IF new.is_running
    THEN {IF r.user_id = new.user_id /\ r.is_running /\ r.id # new.id
          THEN [r EXCEPT !.is_running = FALSE]
          ELSE r : r \in es}
    ELSE es

ForceStopAlways(es, new, t) ==
    {IF r.user_id = new.user_id /\ r.is_running /\ r.id # new.id
     THEN CalculateDuration([r EXCEPT !.is_running = FALSE, !.end_time = Some(t)])
     ELSE r : r \in es}

ForceStopEveryUser(es, new, t) ==
    IF new.is_running
    THEN {IF r.is_running /\ r.id # new.id
          THEN CalculateDuration([r EXCEPT !.is_running = FALSE, !.end_time = Some(t)])
          ELSE r : r \in es}
    ELSE es

EnsureSingleRunningTimer(es, new, t) ==
    IF new.is_running
    THEN {IF r.user_id = new.user_id /\ r.is_running /\ r.id # new.id
          THEN CalculateDuration([r EXCEPT !.is_running = FALSE, !.end_time = Some(t)])
          ELSE r : r \in es}
    ELSE es

(* user_can_access_project(project_uuid, user_uuid): the user owns the     *)
(* project or is assigned to it.  No policy of time_entries calls it.      *)
UserCanAccessProject(pid, uid) ==
    /\ pid \in ProjectIds
    /\ \/ projectOwner[pid] = uid
       \/ <<pid, uid>> \in projectAssignments

(* INSERT of one row by user `auth` at database time t: the BEFORE         *)
(* triggers in name order (trigger_calculate_duration, then                *)
(* trigger_ensure_single_running_timer), then the row is stored.           *)
InsertAllowed(auth, row) == row.user_id = auth /\ row.project_id \in ProjectIds

DbInsert(es, row, t) ==
    LET new == CalculateDuration(row)
    IN  EnsureSingleRunningTimer(es, new, t) \cup {new}

(* The INSERT statement as the table sees it.  A row that fails the policy *)
(* or the foreign key of project_id aborts the statement, and what its     *)
(* BEFORE triggers had written is undone with it.                          *)
InsertStatementKeepsStops(es, auth, row, t) ==
    IF InsertAllowed(auth, row) THEN DbInsert(es, row, t)
    ELSE EnsureSingleRunningTimer(es, CalculateDuration(row), t)

InsertStatement(es, auth, row, t) ==
    IF InsertAllowed(auth, row) THEN DbInsert(es, row, t) ELSE es

(* The SET list of an UPDATE: for each column <<>> (not in the list) or    *)
(* <<v>> (set to v, where v of a nullable column is itself <<>> or <<x>>). *)
ApplyPatch(r, patch) ==
    [r EXCEPT !.end_time = IF patch.end_time = <<>> THEN @ ELSE patch.end_time[1],
              !.is_running = IF patch.is_running = <<>> THEN @ ELSE patch.is_running[1],
              !.duration_seconds = IF patch.duration_seconds = <<>> THEN @
                                   ELSE patch.duration_seconds[1]]

(* UPDATE ... SET patch WHERE id = id by user `auth` at database time t:   *)
(* the row must pass the UPDATE policy; the BEFORE triggers run on it.     *)
(* No matching row is no error.                                            *)
DbUpdateEveryOwnRow(es, auth, id, patch, t) ==
    {IF r.user_id = auth THEN CalculateDuration(ApplyPatch(r, patch)) ELSE r : r \in es}

DbUpdate(es, auth, id, patch, t) ==
    LET hit == {r \in OwnRows(es, auth) : r.id = id}
    IN  IF hit = {} THEN es
        ELSE LET old == CHOOSE r \in hit : TRUE
                 new == CalculateDuration(ApplyPatch(old, patch))
             IN  (EnsureSingleRunningTimer(es, new, t) \ {old}) \cup {new}

(* DELETE ... WHERE id = id by user `auth`: of the rows the DELETE policy   *)
(* lets the user see; no matching row is no error.                         *)
DbDeleteAnyRow(es, auth, id) == es \ {r \in es : r.id = id}

DbDelete(es, auth, id) == es \ {r \in OwnRows(es, auth) : r.id = id}

(* get_running_timer(p_user_id): the rows it can return (LIMIT 1 of them). *)
(* The join with projects drops no row: project_id is a foreign key.       *)
RunningTimerRowsOfAnyState(es, uid, t) ==
    {[id |-> r.id, elapsed_seconds |-> RoundSec(t - r.start_time)] :
        r \in {x \in es : x.user_id = uid}}

RunningTimerRows(es, uid, t) ==
    {[id |-> r.id, elapsed_seconds |-> RoundSec(t - r.start_time)] :
        r \in {x \in es : x.user_id = uid /\ x.is_running}}

(* Decimal arithmetic.  Hours are counted in hundredths and money in cents  *)
(* (two decimals: DECIMAL(10,2) and ROUND(x, 2)).  ROUND of a numeric goes  *)
(* to the nearest, ties away from zero; the quotient seconds / 3600 is     *)
(* taken as exact (numeric division carries 16 digits or more).            *)
HundredthsPerUnit == 100

RoundDiv(n, d) ==
    IF n >= 0
    THEN (2 * n + d) \div (2 * d)
    ELSE 0 - ((2 * (0 - n) + d) \div (2 * d))

(* COALESCE(te.hourly_rate, p.hourly_rate, 0), in cents *)
EffectiveRateEntryOnly(rate, prate) == IF rate # Null THEN Val(rate) ELSE 0

EffectiveRate(rate, prate) ==
    IF rate # Null THEN Val(rate) ELSE IF prate # Null THEN Val(prate) ELSE 0

(* ROUND((duration_seconds / 3600) * rate, 2), in cents *)
AmountCents(seconds, rate) == RoundDiv(seconds * rate, SecondsPerHour)

(* ROUND(duration_seconds / 3600, 2), in hundredths of an hour *)
HoursHundredths(seconds) == RoundDiv(seconds * HundredthsPerUnit, SecondsPerHour)

(* get_time_entries_with_details(p_project_id, NULL, NULL) as the caller   *)
(* `auth` (SECURITY DEFINER): the rows of the project, when the caller     *)
(* owns the project, each with duration_hours and amount, which are NULL   *)
(* while duration_seconds is.                                              *)
EntryDetails(es, auth, pid) ==
    {[id |-> r.id, is_running |-> r.is_running, billable |-> r.billable,
      duration_seconds |-> r.duration_seconds, hourly_rate |-> r.hourly_rate,
      duration_hours |-> IF r.duration_seconds = Null THEN Null
                         ELSE Some(HoursHundredths(Val(r.duration_seconds))),
      amount |-> IF r.duration_seconds = Null THEN Null
                 ELSE Some(AmountCents(Val(r.duration_seconds),
                                       EffectiveRate(r.hourly_rate, projectRate[pid])))] :
        r \in {x \in es : /\ x.project_id = pid
                           /\ pid \in ProjectIds
                           /\ projectOwner[pid] = auth}}

(* Of each row the handlers use only id and is_running. *)
ListedRows(es, auth, pid) ==
    {[id |-> x.id, is_running |-> x.is_running] : x \in EntryDetails(es, auth, pid)}

(* The rows of time_entries that a query of user `auth` reads: the policy  *)
(* "Users can view time entries for accessible projects" (the user's own   *)
(* rows and the rows of the projects the user owns).                       *)
VisibleRows(es, auth) ==
    {r \in es : r.user_id = auth \/ projectOwner[r.project_id] = auth}

(* SELECT hourly_rate FROM projects WHERE id = pid as user `auth`: the     *)
(* policy "Users can view their own or assigned projects"; no row gives    *)
(* NULL.                                                                   *)
VisibleProjectRate(pid, auth) ==
    IF UserCanAccessProject(pid, auth) THEN projectRate[pid] ELSE Null

RECURSIVE SumSeconds(_)
SumSeconds(rows) ==
    IF rows = {} THEN 0
    ELSE LET r == CHOOSE x \in rows : TRUE
         IN  Val(r.duration_seconds) + SumSeconds(rows \ {r})

(* SUM(duration_seconds * COALESCE(hourly_rate, v_project_rate, 0)): cents *)
(* times seconds, that is 3600ths of a cent                                *)
RECURSIVE SumRateSeconds(_, _)
SumRateSeconds(rows, prate) ==
    IF rows = {} THEN 0
    ELSE LET r == CHOOSE x \in rows : TRUE
         IN  Val(r.duration_seconds) * EffectiveRate(r.hourly_rate, prate)
               + SumRateSeconds(rows \ {r}, prate)

(* get_project_total_hours, get_project_billable_hours and                 *)
(* get_project_billable_amount as the caller `auth`.  The three functions  *)
(* are not SECURITY DEFINER: their queries run with the caller's rights,   *)
(* under the SELECT policies.                                              *)
GetProjectTotalHours(es, auth, pid) ==
    HoursHundredths(SumSeconds({r \in VisibleRows(es, auth) :
                                  r.project_id = pid /\ r.duration_seconds # Null}))

GetProjectBillableHours(es, auth, pid) ==
    HoursHundredths(SumSeconds({r \in VisibleRows(es, auth) :
                                  /\ r.project_id = pid
                                  /\ r.billable
                                  /\ r.duration_seconds # Null}))

GetProjectBillableAmount(es, auth, pid) ==
    RoundDiv(SumRateSeconds({r \in VisibleRows(es, auth) :
                                /\ r.project_id = pid
                                /\ r.billable
                                /\ r.duration_seconds # Null},
                            VisibleProjectRate(pid, auth)),
             SecondsPerHour)

----------------------------------------------------------------------------
(* What a statement of user `auth` on the row `id` finds: no row with that *)
(* id, a row of another user, or the user's own row, running or stopped.   *)
RowState(es, auth, id) ==
    IF \A r \in es : r.id # id THEN "missing"
    ELSE IF \A r \in es : r.id = id => r.user_id # auth THEN "foreign"
    ELSE IF \E r \in es : r.id = id /\ r.is_running THEN "running"
    ELSE "stopped"

TimerRow(id, uid, pid, start) ==
    [id |-> id, user_id |-> uid, project_id |-> pid, entry_type |-> "timer",
     start_time |-> start, end_time |-> Null, duration_seconds |-> Null,
     billable |-> TRUE, hourly_rate |-> Null, is_running |-> TRUE]

ManualRow(id, uid, pid, start, end, billable, rate) ==
    [id |-> id, user_id |-> uid, project_id |-> pid, entry_type |-> "manual",
     start_time |-> start, end_time |-> Some(end), duration_seconds |-> Null,
     billable |-> billable, hourly_rate |-> rate, is_running |-> FALSE]

(* stopTimer's update({end_time: new Date().toISOString(), is_running: false}) *)
StopPatch(end) ==
    [end_time |-> Some(Some(end)), is_running |-> Some(FALSE), duration_seconds |-> <<>>]

(* auth.users: the accounts and the email address of each; "u3" signed up  *)
(* by phone and has none.                                                  *)
AuthUsers == Users \cup {"u3"}
userEmail == [u \in AuthUsers |-> IF u = "u3" THEN Null ELSE Some(u)]

(* NotificationProvider before its first fetch: useState([]), useState(0), *)
(* with no notification stored yet and nothing on its way to the tab.      *)
(* notifRows[i] is the row with id i: "unread" (read = FALSE), "read", or  *)
(* "deleted" once it is gone, so an id is never given twice.               *)
InitNotifications ==
    /\ notifRows = <<>>
    /\ notifications = <<>>
    /\ unreadCount = 0
    /\ feed = <<>>
    /\ responses = {}

(* No notification_preferences row yet, no request served yet *)
InitMail ==
    /\ prefs = [u \in AuthUsers |-> Null]
    /\ outbox = <<>>
    /\ reply = [method |-> "none", user_id |-> "none", status |-> 0,
                skipped |-> FALSE, called |-> FALSE, sent |-> FALSE]

Init ==
    /\ entries = {}
    /\ now = 0
    /\ nextId = 1
    /\ timer = [c \in AllClients |-> Null]
    /\ listed = [c \in AllClients |-> {}]
    /\ pending = [c \in AllClients |-> Null]
    /\ last = [op |-> "none", res |-> "none", hit |-> "none"]
    /\ summary = [c \in AllClients |-> Null]
    /\ InitNotifications
    /\ InitMail

(* The database clock moves on *)
AdvanceClock ==
    /\ now < MaxNow
    /\ now' = now + 1
    /\ UNCHANGED <<notifVars, mailVars, summary, entries, nextId, timer, listed, pending, last>>

(* StartTimerDialog.handleStart: the dialog is rendered only while the     *)
(* tab's list shows no running entry; after the insert onStart refetches.  *)
(* An insert that fails is reported ("Failed to start timer") and nothing  *)
(* is refetched.                                                           *)
StartTimer(c) ==
    /\ nextId <= MaxEntries
    /\ \A e \in listed[c] : ~e.is_running
    /\ LET row == TimerRow(nextId, clientUser[c], clientProject[c], ClientNow(c, now))
           ok == InsertAllowed(clientUser[c], row)
       IN  /\ entries' = InsertStatement(entries, clientUser[c], row, now)
           /\ nextId' = IF ok THEN nextId + 1 ELSE nextId
           /\ listed' = IF ok
                        THEN [listed EXCEPT ![c] =
                                ListedRows(entries', clientUser[c], clientProject[c])]
                        ELSE listed
           /\ last' = [op |-> "StartTimer", res |-> IF ok THEN "ok" ELSE "error",
                       hit |-> "none"]
    /\ UNCHANGED <<notifVars, mailVars, summary, now, timer, pending>>

(* TimerWidget.stopTimer *)
StopTimer(c) ==
    /\ timer[c] # Null
    /\ entries' = DbUpdate(entries, clientUser[c], Val(timer[c]),
                           StopPatch(ClientNow(c, now)), now)
    /\ timer' = [timer EXCEPT ![c] = Null]
    /\ last' = [op |-> "StopTimer", res |-> "ok",
                hit |-> RowState(entries, clientUser[c], Val(timer[c]))]
    /\ UNCHANGED <<notifVars, mailVars, summary, now, nextId, listed, pending>>

(* The manual-entry form is submitted.  A duration the input refuses stops *)
(* the submit in the browser, which shows its validation message, and      *)
(* handleSubmit does not run.  Otherwise AddManualEntryDialog.handleSubmit *)
(* inserts the entry and onSuccess refetches the list; an insert that      *)
(* fails is reported ("Failed to add time entry").                         *)
AddManualEntry(c) ==
    /\ nextId <= MaxEntries
    /\ \E m \in ManualMinutes, q \in DurationQuarters \cup OutOfRangeQuarters,
          b \in BOOLEAN, rate \in ManualRates :
         LET start == m * SecondsPerMinute * TicksPerSec
             end == start + (q * SecondsPerHour * TicksPerSec) \div QuartersPerHour
             row == ManualRow(nextId, clientUser[c], clientProject[c], start, end, b, rate)
             valid == FormAccepts(q)
             ok == valid /\ InsertAllowed(clientUser[c], row)
         IN  /\ entries' = IF valid
                           THEN InsertStatement(entries, clientUser[c], row, now)
                           ELSE entries
             /\ nextId' = IF ok THEN nextId + 1 ELSE nextId
             /\ listed' = IF ok
                          THEN [listed EXCEPT ![c] =
                                  ListedRows(entries', clientUser[c], clientProject[c])]
                          ELSE listed
             /\ last' = [op |-> "AddManualEntry",
                         res |-> IF ~valid THEN "invalid"
                                 ELSE IF ok THEN "ok" ELSE "error",
                         hit |-> "none"]
    /\ UNCHANGED <<notifVars, mailVars, summary, now, timer, pending>>

(* ProjectTimeTracker.deleteEntry: the delete button is rendered for the   *)
(* listed entries that are not running; afterwards the list is refetched.  *)
DeleteEntry(c) ==
    /\ \E e \in listed[c] :
         /\ ~e.is_running
         /\ entries' = DbDelete(entries, clientUser[c], e.id)
         /\ last' = [op |-> "DeleteEntry", res |-> "ok",
                     hit |-> RowState(entries, clientUser[c], e.id)]
    /\ listed' = [listed EXCEPT ![c] = ListedRows(entries', clientUser[c], clientProject[c])]
    /\ UNCHANGED <<notifVars, mailVars, summary, now, nextId, timer, pending>>

(* TimerWidget.fetchRunningTimer (on mount) *)
FetchRunningTimer(c) ==
    /\ LET rows == RunningTimerRows(entries, clientUser[c], now)
       IN  IF rows = {}
           THEN timer' = [timer EXCEPT ![c] = Null]
           ELSE \E r \in rows : timer' = [timer EXCEPT ![c] = Some(r.id)]
    /\ timer'[c] # timer[c]
    /\ UNCHANGED <<notifVars, mailVars, summary, entries, now, nextId, listed, pending, last>>

(* ProjectTimeTracker.fetchTimeEntries (on mount) *)
FetchTimeEntries(c) ==
    /\ listed' = [listed EXCEPT ![c] = ListedRows(entries, clientUser[c], clientProject[c])]
    /\ listed'[c] # listed[c]
    /\ UNCHANGED <<notifVars, mailVars, summary, entries, now, nextId, timer, pending, last>>

(* ProjectTimeTracker.fetchTimeSummary (on mount, and when the requests    *)
(* sent after an add or a delete are answered): the three totals of the    *)
(* tab's project as the tab's user gets them.  No handler reads them.      *)
FetchTimeSummary(c) ==
    /\ summary' = [summary EXCEPT ![c] =
          Some([totalHours |-> GetProjectTotalHours(entries, clientUser[c], clientProject[c]),
                billableHours |->
                    GetProjectBillableHours(entries, clientUser[c], clientProject[c]),
                billableAmount |->
                    GetProjectBillableAmount(entries, clientUser[c], clientProject[c])])]
    /\ summary'[c] # summary[c]
    /\ UNCHANGED <<notifVars, mailVars, entries, now, nextId, timer, listed, pending, last>>

Next ==
    \/ AdvanceClock
    \/ \E c \in Clients : StartTimer(c)
    \/ \E c \in Clients : StopTimer(c)
    \/ \E c \in Clients : AddManualEntry(c)
    \/ \E c \in Clients : DeleteEntry(c)
    \/ \E c \in Clients : FetchRunningTimer(c)
    \/ \E c \in Clients : FetchTimeEntries(c)

Spec == Init /\ [][Next]_vars

----------------------------------------------------------------------------
(* Concurrent StartTimer requests.  Each insert runs in its own            *)
(* transaction (READ COMMITTED): the statement with its triggers sees the  *)
(* rows committed so far, and its own writes are seen by the others only   *)
(* after its commit.  A row one open transaction has updated is locked:    *)
(* another statement that would update it waits for that commit.           *)

WrittenIds(c) == IF pending[c] = Null THEN {} ELSE {r.id : r \in Val(pending[c]).stops}

(* handleStart's insert executes: the triggers run on the committed rows *)
BeginStartTimer(c) ==
    /\ pending[c] = Null
    /\ nextId <= MaxEntries
    /\ \A e \in listed[c] : ~e.is_running
    /\ LET row == TimerRow(nextId, clientUser[c], clientProject[c], ClientNow(c, now))
           after == DbInsert(entries, row, now)
           stops == after \ (entries \cup {row})
       IN  /\ InsertAllowed(clientUser[c], row)
           /\ \A o \in Clients \ {c} : WrittenIds(o) \cap {r.id : r \in stops} = {}
           /\ pending' = [pending EXCEPT ![c] = Some([row |-> row, stops |-> stops])]
    /\ nextId' = nextId + 1
    /\ UNCHANGED <<notifVars, mailVars, summary, entries, now, timer, listed, last>>

(* the transaction commits; the handler reports success and refetches *)
CommitStartTimer(c) ==
    /\ pending[c] # Null
    /\ LET tx == Val(pending[c])
       IN  entries' = {r \in entries : r.id \notin {x.id : x \in tx.stops}}
                          \cup tx.stops \cup {tx.row}
    /\ pending' = [pending EXCEPT ![c] = Null]
    /\ listed' = [listed EXCEPT ![c] = ListedRows(entries', clientUser[c], clientProject[c])]
    /\ last' = [op |-> "StartTimer", res |-> "ok", hit |-> "none"]
    /\ UNCHANGED <<notifVars, mailVars, summary, now, nextId, timer>>

NextTx ==
    \/ AdvanceClock
    \/ \E c \in Clients : BeginStartTimer(c)
    \/ \E c \in Clients : CommitStartTimer(c)
    \/ \E c \in Clients : FetchTimeEntries(c)

SpecTx == Init /\ [][NextTx]_vars

----------------------------------------------------------------------------
(* The tabs on existing projects together with the tab that still shows a  *)
(* deleted project: its inserts name a project_id that projects no longer  *)
(* holds.                                                                  *)

NextStale ==
    \/ AdvanceClock
    \/ \E c \in AllClients : StartTimer(c)
    \/ \E c \in AllClients : AddManualEntry(c)

SpecStale == Init /\ [][NextStale]_vars

----------------------------------------------------------------------------
(* The list and the totals of a project page, read from a table that       *)
(* already holds entries: running timers (billable, without a rate of      *)
(* their own, as handleStart inserts them) and stopped entries of one      *)
(* second and of a quarter of an hour, billable or not, with or without a  *)
(* rate of their own (33.33 an hour, in cents).                            *)

TotalsDurations == {1, 900}
TotalsRates == {<<>>, <<3333>>}
TotalsAuthors == {<<"u1", "p1">>, <<"u1", "p2">>, <<"u2", "p2">>}

TotalsShapes ==
    [author : TotalsAuthors, seconds : {<<>>}, billable : {TRUE}, rate : {<<>>}]
      \cup [author : TotalsAuthors, seconds : {<<d>> : d \in TotalsDurations},
             billable : BOOLEAN, rate : TotalsRates]

TotalsRow(id, sh) ==
    CalculateDuration(
        [id |-> id, user_id |-> sh.author[1], project_id |-> sh.author[2],
         entry_type |-> IF sh.seconds = Null THEN "timer" ELSE "manual",
         start_time |-> 0,
         end_time |-> IF sh.seconds = Null THEN Null
                      ELSE Some(Val(sh.seconds) * TicksPerSec),
         duration_seconds |-> Null, billable |-> sh.billable,
         hourly_rate |-> sh.rate, is_running |-> sh.seconds = Null])

InitTotals ==
    /\ \E n \in 0..MaxTotalsRows :
         /\ nextId = n + 1
         /\ entries \in {{TotalsRow(i, f[i]) : i \in 1..n} : f \in [1..n -> TotalsShapes]}
    /\ \A u \in Users : Cardinality({r \in entries : r.user_id = u /\ r.is_running}) <= 1
    /\ now = 0
    /\ timer = [c \in AllClients |-> Null]
    /\ listed = [c \in AllClients |-> {}]
    /\ pending = [c \in AllClients |-> Null]
    /\ last = [op |-> "none", res |-> "none", hit |-> "none"]
    /\ summary = [c \in AllClients |-> Null]
    /\ InitNotifications
    /\ InitMail

NextTotals ==
    \/ \E c \in Clients : FetchTimeSummary(c)
    \/ \E c \in Clients : FetchTimeEntries(c)

SpecTotals == InitTotals /\ [][NextTotals]_vars

----------------------------------------------------------------------------
(* One user at work for an hour and a half: the tabs c1 (project p1, rate  *)
(* 50.00) and c2 (project p2) of user u1, with the clock moving in half    *)
(* hours.                                                                  *)

ScenarioClients == {"c1", "c2"}
HalfHour == (SecondsPerHour \div 2) * TicksPerSec
ScenarioEnd == 3 * HalfHour

HalfHourPasses ==
    /\ now < ScenarioEnd
    /\ now' = now + HalfHour
    /\ UNCHANGED <<notifVars, mailVars, entries, nextId, timer, listed, pending, last, summary>>

NextScenario ==
    \/ HalfHourPasses
    \/ \E c \in ScenarioClients : StartTimer(c)
    \/ \E c \in ScenarioClients : StopTimer(c)
    \/ \E c \in ScenarioClients : FetchRunningTimer(c)
    \/ \E c \in ScenarioClients : FetchTimeSummary(c)

SpecScenario == Init /\ [][NextScenario]_vars

----------------------------------------------------------------------------
(* The table as the data API exposes it: any signed-in user may send an    *)
(* INSERT or UPDATE of time_entries with any column values; the policies   *)
(* and the triggers are all that stands between the request and the row.   *)

ApiProjects == {"p1"}
ApiDurations == {Null, Some(7)}
ApiEndTimes(t) == {Null, Some(t + 1)}

InsertRow(u) ==
    /\ nextId <= MaxApiRows
    /\ \E pid \in ApiProjects, run \in BOOLEAN, end \in ApiEndTimes(now), dur \in ApiDurations :
         LET row == [id |-> nextId, user_id |-> u, project_id |-> pid,
                     entry_type |-> "timer", start_time |-> now, end_time |-> end,
                     duration_seconds |-> dur, billable |-> TRUE,
                     hourly_rate |-> Null, is_running |-> run]
         IN  /\ InsertAllowed(u, row)
             /\ entries' = DbInsert(entries, row, now)
             /\ last' = [op |-> "InsertRow", res |-> "ok",
                         hit |-> IF run /\ end # Null THEN "running+end" ELSE "none"]
    /\ nextId' = nextId + 1
    /\ UNCHANGED <<notifVars, mailVars, summary, now, timer, listed, pending>>

UpdateRow(u) ==
    /\ \E id \in 1..(nextId - 1),
          pe \in {<<>>} \cup {Some(e) : e \in ApiEndTimes(now)},
          pr \in {<<>>, Some(TRUE), Some(FALSE)},
          pd \in {<<>>} \cup {Some(d) : d \in ApiDurations \ {Null}} :
         LET patch == [end_time |-> pe, is_running |-> pr, duration_seconds |-> pd]
         IN  /\ entries' = DbUpdate(entries, u, id, patch, now)
             /\ last' = [op |-> "UpdateRow", res |-> "ok",
                         hit |-> IF pr = Some(TRUE) /\ pe # <<>> /\ pe # Some(Null)
                                 THEN "running+end" ELSE "none"]
    /\ UNCHANGED <<notifVars, mailVars, summary, now, nextId, timer, listed, pending>>

(* rpc("get_running_timer", {p_user_id}) sent by the signed-in user u with *)
(* any user's id.  The function is SECURITY DEFINER and never reads        *)
(* auth.uid(): what it returns depends on p_user_id alone.                 *)
CallGetRunningTimer(u) ==
    /\ \E uid \in Users :
         last' = [op |-> "GetRunningTimer",
                  res |-> IF RunningTimerRows(entries, uid, now) = {} THEN "none" ELSE "row",
                  hit |-> IF uid = u THEN "own" ELSE "other"]
    /\ last' # last
    /\ UNCHANGED <<notifVars, mailVars, entries, now, nextId, timer, listed, pending, summary>>

NextApi ==
    \/ AdvanceClock
    \/ \E u \in Users : InsertRow(u)
    \/ \E u \in Users : UpdateRow(u)
    \/ \E u \in Users : CallGetRunningTimer(u)

SpecApi == Init /\ [][NextApi]_vars

----------------------------------------------------------------------------
(* The notification centre of one signed-in user in one tab                *)
(* (NotificationProvider).  The notifications table has row level security *)
(* enabled, and the model takes the user's own rows to be readable,        *)
(* updatable and deletable by the user and every change of them to be      *)
(* published to the tab's realtime channel, in commit order.               *)

MaxNotifications == 2
MaxFeed == 2
MaxFetches == 1
NotificationLimit == 50

Item(id, read) == [id |-> id, read |-> read]

RECURSIVE NewestFirst(_, _)
NewestFirst(rows, n) ==
    IF n = 0 THEN <<>>
    ELSE (IF rows[n] = "deleted" THEN <<>> ELSE <<Item(n, rows[n] = "read")>>)
         \o NewestFirst(rows, n - 1)

(* select("*").eq("user_id", user.id).order("created_at", desc).limit(50) *)
SelectNotifications(rows) ==
    LET all == NewestFirst(rows, Len(rows))
    IN  SubSeq(all, 1, IF Len(all) < NotificationLimit THEN Len(all) ELSE NotificationLimit)

(* data.filter((n) => !n.read).length *)
UnreadIn(list) == Cardinality({i \in 1..Len(list) : ~list[i].read})

(* Math.max(0, prev - 1) *)
Decrement(count) == IF count - 1 > 0 THEN count - 1 ELSE 0

(* prev.map((n) => (n.id === id ? { ...n, read: true } : n)) *)
WithRead(list, id) ==
    [i \in 1..Len(list) |-> IF list[i].id = id THEN Item(id, TRUE) ELSE list[i]]

(* prev.filter((n) => n.id !== id) *)
Without(list, id) == SelectSeq(list, LAMBDA n : n.id # id)

LocalIds(list) == {list[i].id : i \in 1..Len(list)}

(* notifications.find((n) => n.id === id) *)
Find(list, id) == list[CHOOSE i \in 1..Len(list) :
                         /\ list[i].id = id
                         /\ \A j \in 1..(i - 1) : list[j].id # id]

IsStored(rows, id) == id \in 1..Len(rows) /\ rows[id] # "deleted"

Event(type, id, read) == [type |-> type, id |-> id, read |-> read]

(* create_notification: a new row, read = FALSE by default *)
CreateNotification ==
    /\ Len(notifRows) < MaxNotifications
    /\ Len(feed) < MaxFeed
    /\ notifRows' = Append(notifRows, "unread")
    /\ feed' = Append(feed, Event("INSERT", Len(notifRows) + 1, Some(FALSE)))
    /\ UNCHANGED <<notifications, unreadCount, responses>>
    /\ UNCHANGED <<entries, now, nextId, timer, listed, pending, last, summary, mailVars>>

(* fetchNotifications up to its await: the select runs on the rows as they *)
(* are now, and its answer is on the way.                                  *)
FetchNotifications ==
    /\ Cardinality(responses) < MaxFetches
    /\ responses' = responses \cup {SelectNotifications(notifRows)}
    /\ UNCHANGED <<notifRows, notifications, unreadCount, feed>>
    /\ UNCHANGED <<entries, now, nextId, timer, listed, pending, last, summary, mailVars>>

(* fetchNotifications after its await: setNotifications(data),             *)
(* setUnreadCount(data.filter((n) => !n.read).length)                      *)
ReceiveNotifications ==
    /\ \E data \in responses :
         /\ notifications' = data
         /\ unreadCount' = UnreadIn(data)
         /\ responses' = responses \ {data}
    /\ UNCHANGED <<notifRows, feed>>
    /\ UNCHANGED <<entries, now, nextId, timer, listed, pending, last, summary, mailVars>>

(* markAsRead(id), from a click on an item of the list, read or unread *)
MarkAsRead(id) ==
    /\ id \in LocalIds(notifications)
    /\ Len(feed) < MaxFeed
    /\ IF IsStored(notifRows, id)
       THEN /\ notifRows' = [notifRows EXCEPT ![id] = "read"]
            /\ feed' = Append(feed, Event("UPDATE", id, Some(TRUE)))
       ELSE UNCHANGED <<notifRows, feed>>
    /\ notifications' = WithRead(notifications, id)
    /\ unreadCount' = Decrement(unreadCount)
    /\ UNCHANGED responses
    /\ UNCHANGED <<entries, now, nextId, timer, listed, pending, last, summary, mailVars>>

RECURSIVE UpdateEvents(_, _)
UpdateEvents(rows, n) ==
    IF n = 0 THEN <<>>
    ELSE UpdateEvents(rows, n - 1)
         \o (IF rows[n] = "unread" THEN <<Event("UPDATE", n, Some(TRUE))>> ELSE <<>>)

(* markAllAsRead, from the button shown while unreadCount > 0 *)
MarkAllAsRead ==
    /\ unreadCount > 0
    /\ Len(feed) + Len(UpdateEvents(notifRows, Len(notifRows))) <= MaxFeed
    /\ notifRows' = [i \in 1..Len(notifRows) |->
                       IF notifRows[i] = "unread" THEN "read" ELSE notifRows[i]]
    /\ feed' = feed \o UpdateEvents(notifRows, Len(notifRows))
    /\ notifications' = [i \in 1..Len(notifications) |-> Item(notifications[i].id, TRUE)]
    /\ unreadCount' = 0
    /\ UNCHANGED responses
    /\ UNCHANGED <<entries, now, nextId, timer, listed, pending, last, summary, mailVars>>

(* What payload.old of a DELETE event says of `read`: the column's value   *)
(* when the table's replica identity is FULL, nothing when it is the       *)
(* default (the primary key only).                                         *)
OldRecordReads(read) == {Some(read), Null}

(* deleteNotification(id), from the delete button of an item of the list *)
DeleteNotification(id) ==
    /\ id \in LocalIds(notifications)
    /\ Len(feed) < MaxFeed
    /\ IF IsStored(notifRows, id)
       THEN /\ notifRows' = [notifRows EXCEPT ![id] = "deleted"]
            /\ \E old \in OldRecordReads(notifRows[id] = "read") :
                 feed' = Append(feed, Event("DELETE", id, old))
       ELSE UNCHANGED <<notifRows, feed>>
    /\ notifications' = Without(notifications, id)
    /\ unreadCount' = IF ~Find(notifications, id).read
                      THEN Decrement(unreadCount) ELSE unreadCount
    /\ UNCHANGED responses
    /\ UNCHANGED <<entries, now, nextId, timer, listed, pending, last, summary, mailVars>>

(* The channel's INSERT callback *)
OnInsert ==
    /\ feed # <<>> /\ Head(feed).type = "INSERT"
    /\ notifications' = <<Item(Head(feed).id, Val(Head(feed).read))>> \o notifications
    /\ unreadCount' = unreadCount + 1
    /\ feed' = Tail(feed)
    /\ UNCHANGED <<notifRows, responses>>
    /\ UNCHANGED <<entries, now, nextId, timer, listed, pending, last, summary, mailVars>>

(* The channel's UPDATE callback, which ends in fetchNotifications() *)
OnUpdate ==
    /\ feed # <<>> /\ Head(feed).type = "UPDATE"
    /\ Cardinality(responses) < MaxFetches
    /\ notifications' = [i \in 1..Len(notifications) |->
                           IF notifications[i].id = Head(feed).id
                           THEN Item(Head(feed).id, Val(Head(feed).read))
                           ELSE notifications[i]]
    /\ responses' = responses \cup {SelectNotifications(notifRows)}
    /\ feed' = Tail(feed)
    /\ UNCHANGED <<notifRows, unreadCount>>
    /\ UNCHANGED <<entries, now, nextId, timer, listed, pending, last, summary, mailVars>>

(* The channel's DELETE callback: if (!deleted.read) counts one down, also *)
(* when payload.old carries no `read` at all.                              *)
OnDelete ==
    /\ feed # <<>> /\ Head(feed).type = "DELETE"
    /\ notifications' = Without(notifications, Head(feed).id)
    /\ unreadCount' = IF Head(feed).read = Null \/ ~Val(Head(feed).read)
                      THEN Decrement(unreadCount) ELSE unreadCount
    /\ feed' = Tail(feed)
    /\ UNCHANGED <<notifRows, responses>>
    /\ UNCHANGED <<entries, now, nextId, timer, listed, pending, last, summary, mailVars>>

NotificationIds == 1..MaxNotifications

NextNotifications ==
    \/ CreateNotification
    \/ FetchNotifications
    \/ ReceiveNotifications
    \/ \E id \in NotificationIds : MarkAsRead(id)
    \/ MarkAllAsRead
    \/ \E id \in NotificationIds : DeleteNotification(id)
    \/ OnInsert
    \/ OnUpdate
    \/ OnDelete

SpecNotifications == Init /\ [][NextNotifications]_vars

----------------------------------------------------------------------------
(* The edge function send-notification-email and the preferences it reads  *)

MaxMails == 2

(* The users who open the application here: one with an email address and *)
(* one without.                                                            *)
MailUsers == {"u1", "u3"}

(* The user_id of a request's payload: one of them, or "u9", which is no   *)
(* account.                                                                *)
PayloadUsers == MailUsers \cup {"u9"}

(* The request body: a full NotificationPayload, one without `metadata`,   *)
(* or text that is not JSON.                                               *)
Bodies == {"full", "nometadata", "invalid"}

(* What the email API does with a call: accepts it, answers with an error  *)
(* status, or the connection fails and fetch throws.                       *)
ApiOutcomes == {"ok", "rejected", "threw"}

(* fetchPreferences of a signed-in user without a preferences row: insert  *)
(* ({ user_id }), and email_enabled takes its default FALSE.               *)
FetchPreferences(u) ==
    /\ prefs[u] = Null
    /\ prefs' = [prefs EXCEPT ![u] = Some(FALSE)]
    /\ UNCHANGED <<outbox, reply>>
    /\ UNCHANGED <<entries, now, nextId, timer, listed, pending, last, summary, notifVars>>

(* updatePreferences({ email_enabled }) on the user's row *)
UpdatePreferences(u, enabled) ==
    /\ prefs[u] # Null
    /\ prefs' = [prefs EXCEPT ![u] = Some(enabled)]
    /\ UNCHANGED <<outbox, reply>>
    /\ UNCHANGED <<entries, now, nextId, timer, listed, pending, last, summary, notifVars>>

(* userData?.user?.email of supabase.auth.admin.getUserById(user_id) *)
GetUserById(uid) == IF uid \in AuthUsers THEN userEmail[uid] ELSE Null

EmailEnabledUnlessOff(p, uid) == p[uid] = Null \/ Val(p[uid])

(* prefs?.email_enabled of the row selected with .eq("user_id", ...).single() *)
EmailEnabled(p, uid) == p[uid] # Null /\ Val(p[uid])

Response(method, uid, status, skipped, called, sent) ==
    [method |-> method, user_id |-> uid, status |-> status,
     skipped |-> skipped, called |-> called, sent |-> sent]

(* The serve handler, for one request *)
Serve(method, body, uid, api) ==
    /\ IF method = "OPTIONS"
       THEN /\ reply' = Response(method, "none", 200, FALSE, FALSE, FALSE)
            /\ UNCHANGED outbox
       ELSE IF body = "invalid"
       THEN /\ reply' = Response(method, "none", 500, FALSE, FALSE, FALSE)
            /\ UNCHANGED outbox
       ELSE IF GetUserById(uid) = Null
       THEN /\ reply' = Response(method, uid, 404, FALSE, FALSE, FALSE)
            /\ UNCHANGED outbox
       ELSE IF ~EmailEnabled(prefs, uid)
       THEN /\ reply' = Response(method, uid, 200, TRUE, FALSE, FALSE)
            /\ UNCHANGED outbox
       ELSE IF body = "nometadata"
       THEN /\ reply' = Response(method, uid, 500, FALSE, FALSE, FALSE)
            /\ UNCHANGED outbox
       ELSE /\ Len(outbox) < MaxMails
            /\ outbox' = Append(outbox, [to |-> Val(GetUserById(uid)), ok |-> api = "ok"])
            /\ reply' = Response(method, uid, IF api = "ok" THEN 200 ELSE 500,
                                 FALSE, TRUE, api = "ok")
    /\ UNCHANGED prefs
    /\ UNCHANGED <<entries, now, nextId, timer, listed, pending, last, summary, notifVars>>

NextMail ==
    \/ \E u \in MailUsers : FetchPreferences(u)
    \/ \E u \in MailUsers, enabled \in BOOLEAN : UpdatePreferences(u, enabled)
    \/ \E method \in {"OPTIONS", "POST"}, body \in Bodies, uid \in PayloadUsers,
          api \in ApiOutcomes : Serve(method, body, uid, api)

SpecMail == Init /\ [][NextMail]_vars


----------------------------------------------------------------------------
(* Vocabulary of the properties *)

RunningOf(es, u) == {r \in es : r.user_id = u /\ r.is_running}

RowOf(es, id) == CHOOSE r \in es : r.id = id

HasRow(es, id) == \E r \in es : r.id = id

(* d whole seconds is the length `ticks` to the nearest second *)
IsWholeSecondsOf(d, ticks) ==
    /\ 2 * (d * TicksPerSec - ticks) <= TicksPerSec
    /\ 2 * (ticks - d * TicksPerSec) <= TicksPerSec

DurationMatches(r) ==
    /\ r.duration_seconds # Null
    /\ IsWholeSecondsOf(Val(r.duration_seconds), Val(r.end_time) - r.start_time)

IsRunningState(r) == r.is_running /\ r.end_time = Null
IsStoppedState(r) == ~r.is_running /\ r.end_time # Null

AllCommitted == \A c \in Clients : pending[c] = Null

----------------------------------------------------------------------------
(* C1: after any sequence of StartTimer, StopTimer, AddManualEntry and     *)
(* DeleteEntry executed one at a time, every user has at most one entry    *)
(* with is_running = TRUE.                                                 *)
C1_SingleRunningTimer ==
    \A u \in Users : Cardinality(RunningOf(entries, u)) <= 1

(* a user who started a second timer: one of the two runs, one is stopped *)
C1_Witness ==
    /\ last.op = "StartTimer"
    /\ \E r1, r2 \in entries :
         /\ r1.user_id = r2.user_id /\ r1.id < r2.id
         /\ r1.entry_type = "timer" /\ r2.entry_type = "timer"
         /\ ~r1.is_running /\ r2.is_running

(* C2: two StartTimer requests of one user that run concurrently, each in  *)
(* its own transaction, do not both end up running once both committed.    *)
C2_ConcurrentStartsLeaveOneRunning ==
    AllCommitted => \A u \in Users : Cardinality(RunningOf(entries, u)) <= 1

(* C3: a StartTimer of a user who has a running timer leaves exactly one   *)
(* running entry, the new one (timer, running, no end time); the earlier   *)
(* one is stopped: not running, end time = the database time of the second *)
(* start, duration = end time - start time in whole seconds, nothing else  *)
(* of it changed.                                                          *)
C3_SecondStartStopsFirst ==
    [][\A c \in Clients :
         (StartTimer(c) /\ RunningOf(entries, clientUser[c]) # {}) =>
            /\ HasRow(entries', nextId)
            /\ RunningOf(entries', clientUser[c]) = {RowOf(entries', nextId)}
            /\ RowOf(entries', nextId).entry_type = "timer"
            /\ RowOf(entries', nextId).end_time = Null
            /\ \A r \in RunningOf(entries, clientUser[c]) :
                 /\ HasRow(entries', r.id)
                 /\ LET r2 == RowOf(entries', r.id)
                    IN  /\ ~r2.is_running
                        /\ r2.end_time = Some(now)
                        /\ DurationMatches(r2)
                        /\ [r2 EXCEPT !.is_running = r.is_running,
                                      !.end_time = r.end_time,
                                      !.duration_seconds = r.duration_seconds] = r
    ]_vars

(* right after the second start: the first timer stopped at the database   *)
(* time of the second start, the second one running                        *)
C3_Witness ==
    /\ last.op = "StartTimer"
    /\ \E r1, r2 \in entries :
         /\ r1.user_id = r2.user_id /\ r1.id < r2.id
         /\ r1.entry_type = "timer" /\ r2.entry_type = "timer"
         /\ IsStoppedState(r1) /\ r1.end_time = Some(now) /\ r1.start_time < now
         /\ IsRunningState(r2)

(* C4: StopTimer on an entry that is already stopped reports no error and  *)
(* leaves the entry's end time, duration and running flag as they were.    *)
C4_RestopIsNoOp ==
    [][\A c \in Clients :
         (StopTimer(c) /\ RowState(entries, clientUser[c], Val(timer[c])) = "stopped") =>
            /\ last'.res = "ok"
            /\ RowOf(entries', Val(timer[c])) = RowOf(entries, Val(timer[c]))
    ]_vars

(* C5: every stopped entry (end time set) has duration = end time - start  *)
(* time in whole seconds, whichever operation set the end time.            *)
C5_DurationIsEndMinusStart ==
    \A r \in entries : r.end_time # Null => DurationMatches(r)

(* an explicitly stopped timer whose length is not a whole number of       *)
(* seconds                                                                 *)
C5_Witness ==
    /\ last.op = "StopTimer" /\ last.hit = "running"
    /\ \E r \in entries :
         /\ r.entry_type = "timer" /\ r.end_time # Null
         /\ (Val(r.end_time) - r.start_time) % TicksPerSec # 0

(* C6: no entry has an end time and is_running = TRUE, also when the row   *)
(* was inserted or updated with both is_running = TRUE and an end time.    *)
C6_EndTimeForcesNotRunning ==
    \A r \in entries : ~(r.end_time # Null /\ r.is_running)

(* a request that sent is_running = TRUE together with an end time *)
C6_Witness ==
    /\ last.hit = "running+end"
    /\ \E r \in entries : r.end_time # Null

(* C7: every entry is Running (running, no end time) or Stopped (not       *)
(* running, end time set) at all times, and an entry that is Stopped stays *)
(* Stopped for as long as it exists.                                       *)
C7_StoppedIsTerminal ==
    /\ [](\A r \in entries : IsRunningState(r) \/ IsStoppedState(r))
    /\ [][\A r \in entries :
            (IsStoppedState(r) /\ HasRow(entries', r.id)) =>
                IsStoppedState(RowOf(entries', r.id))]_vars

(* a stopped entry on which StopTimer was called again *)
C7_Witness ==
    /\ last.op = "StopTimer" /\ last.hit = "stopped"
    /\ \E r \in entries : IsStoppedState(r)

(* C8: StopTimer on a running entry of the caller sets its end time to the *)
(* stop time (the caller's clock), its duration to end time - start time,  *)
(* is_running to FALSE, and changes no other column and no other entry.    *)
C8_StopTimerStopsOnlyThatEntry ==
    [][\A c \in Clients :
         (StopTimer(c) /\ RowState(entries, clientUser[c], Val(timer[c])) = "running") =>
            LET old == RowOf(entries, Val(timer[c]))
            IN  /\ HasRow(entries', old.id)
                /\ LET new == RowOf(entries', old.id)
                   IN  /\ new.end_time = Some(ClientNow(c, now))
                       /\ DurationMatches(new)
                       /\ ~new.is_running
                       /\ [new EXCEPT !.is_running = old.is_running,
                                      !.end_time = old.end_time,
                                      !.duration_seconds = old.duration_seconds] = old
                       /\ entries' \ {new} = entries \ {old}
    ]_vars

(* a running timer was stopped while another entry is in the table *)
C8_Witness ==
    /\ last.op = "StopTimer" /\ last.hit = "running"
    /\ \E r1, r2 \in entries :
         /\ r1.id # r2.id /\ r1.user_id = r2.user_id
         /\ IsStoppedState(r1) /\ r1.entry_type = "timer"

(* C9: StopTimer fails with NotFoundError, and does not report success,    *)
(* when no running entry with that id exists for the caller; stated here   *)
(* for the id that does not exist (any more) or is another user's row.     *)
C9_StopOfMissingEntryFails ==
    [][\A c \in Clients :
         (StopTimer(c) /\
          RowState(entries, clientUser[c], Val(timer[c])) \in {"missing", "foreign"}) =>
            last'.res = "error"
    ]_vars

(* C10: AddManualEntry with a valid duration stores exactly one new entry: *)
(* manual, end time = start time + durationHours * 3600 s, duration =      *)
(* durationHours * 3600, not running; every existing entry, the user's     *)
(* running timer included, stays as it was.                                *)
C10_ManualEntryStored ==
    [][\A c \in Clients :
         (AddManualEntry(c) /\ last'.res # "invalid") =>
            /\ HasRow(entries', nextId) /\ ~HasRow(entries, nextId)
            /\ entries' \ {RowOf(entries', nextId)} = entries
            /\ LET new == RowOf(entries', nextId)
               IN  /\ new.entry_type = "manual"
                   /\ new.user_id = clientUser[c]
                   /\ ~new.is_running
                   /\ \E q \in DurationQuarters :
                        /\ new.end_time =
                             Some(new.start_time +
                                  (q * SecondsPerHour * TicksPerSec) \div QuartersPerHour)
                        /\ new.duration_seconds =
                             Some((q * SecondsPerHour) \div QuartersPerHour)
            /\ RunningOf(entries', clientUser[c]) = RunningOf(entries, clientUser[c])
    ]_vars

(* a manual entry added while the same user's timer is running *)
C10_Witness ==
    /\ last.op = "AddManualEntry" /\ last.res = "ok"
    /\ \E r1, r2 \in entries :
         /\ r1.user_id = r2.user_id /\ r1.id < r2.id
         /\ r1.entry_type = "timer" /\ IsRunningState(r1)
         /\ r2.entry_type = "manual" /\ IsStoppedState(r2)

C12_ForeignDeleteReportsFailure ==
    [][\A c \in Clients :
         (DeleteEntry(c) /\ last'.hit = "foreign") => last'.res = "error"
    ]_vars

(* C13: DeleteEntry on an entry that the caller does not own leaves the    *)
(* table unchanged: the entry is still stored, and so is every other.      *)
C13_ForeignDeleteChangesNothing ==
    [][\A c \in Clients :
         (DeleteEntry(c) /\ last'.hit = "foreign") => entries' = entries
    ]_vars

(* the project's owner has pressed delete on another user's entry, which   *)
(* is still there                                                          *)
C13_Witness ==
    /\ last.op = "DeleteEntry" /\ last.hit = "foreign"
    /\ \E r \in entries : r.user_id # projectOwner[r.project_id]

(* C14: StartTimer that names a project which does not exist is rejected   *)
(* with an error reported to the caller and leaves the table unchanged: no *)
(* entry is created and the user's running timer is still running (the     *)
(* force-stop of the insert trigger does not stay applied).                *)
C14_MissingProjectStartRejected ==
    [][\A c \in AllClients :
         (StartTimer(c) /\ clientProject[c] \notin ProjectIds) =>
            /\ last'.res = "error"
            /\ entries' = entries
    ]_vars

(* the start on the deleted project was refused while its user had a timer *)
(* running, which still runs                                               *)
C14_Witness ==
    /\ last.op = "StartTimer" /\ last.res = "error"
    /\ \E c \in StaleClients : RunningOf(entries, clientUser[c]) # {}

(* C15: StartTimer by a user on an existing project that the user neither  *)
(* owns nor is assigned to fails as invalid input: no entry is created     *)
(* and none of the user's entries is stopped.                              *)
C15_InaccessibleProjectStartRejected ==
    [][\A c \in Clients :
         (/\ StartTimer(c)
          /\ clientProject[c] \in ProjectIds
          /\ ~UserCanAccessProject(clientProject[c], clientUser[c])) =>
            /\ last'.res = "error"
            /\ entries' = entries
    ]_vars

(* C16: the stored durationSeconds depends on startTime and endTime only:  *)
(* it is null while endTime is null and endTime - startTime (to the whole  *)
(* second) otherwise, whatever duration the client sends in an insert or   *)
(* an update.                                                              *)
C16_DurationNeverClientSupplied ==
    \A r \in entries :
        IF r.end_time = Null THEN r.duration_seconds = Null ELSE DurationMatches(r)

(* C17: GetRunningTimer(userId) returns the user's running entry, with     *)
(* elapsedSeconds = now - startTime (to the whole second), when the user   *)
(* has one, and returns none exactly when the user has no entry with       *)
(* isRunning = true.                                                       *)
C17_RunningTimerReturned ==
    \A u \in Users :
        LET rows == RunningTimerRows(entries, u, now)
        IN  /\ rows = {} <=> RunningOf(entries, u) = {}
            /\ \A x \in rows :
                 \E r \in RunningOf(entries, u) :
                    /\ r.id = x.id
                    /\ IsWholeSecondsOf(x.elapsed_seconds, now - r.start_time)

(* a widget has fetched its user's running timer, whose elapsed time is    *)
(* not 0, while a user with entries has none running                       *)
C17_Witness ==
    /\ \E c \in Clients :
         /\ timer[c] # Null
         /\ \E x \in RunningTimerRows(entries, clientUser[c], now) :
              x.id = Val(timer[c]) /\ x.elapsed_seconds >= 1
    /\ \E u \in Users : \E r \in entries :
         r.user_id = u /\ RunningTimerRows(entries, u, now) = {}

(* The sums that the totals of a project are said to be: over every entry  *)
(* of the project with a duration, whoever logged it.                      *)
StoppedOf(es, pid) == {r \in es : r.project_id = pid /\ r.duration_seconds # Null}

BillableOf(es, pid) == {r \in StoppedOf(es, pid) : r.billable}

(* the caller of the totals owns the project or is assigned to it *)
HasAccess(c) == UserCanAccessProject(clientProject[c], clientUser[c])

(* C18: the billable amount of ProjectTotals is the sum, over the          *)
(* project's entries with billable = true and a non-null duration, of      *)
(* durationHours * effectiveRate, the rate being the entry's, else the     *)
(* project's, else 0 (the sum taken to the cent).                          *)
C18_BillableAmountIsSumOverEntries ==
    [][\A c \in Clients :
         (FetchTimeSummary(c) /\ HasAccess(c)) =>
            Val(summary'[c]).billableAmount =
                RoundDiv(SumRateSeconds(BillableOf(entries, clientProject[c]),
                                        projectRate[clientProject[c]]),
                         SecondsPerHour)
    ]_vars

(* C19: ProjectTotals aggregates the entries with a non-null duration:     *)
(* totalHours is the sum of durationSeconds / 3600 over all stopped        *)
(* entries of the project, billableHours the same over the billable ones   *)
(* (each to the hundredth of an hour); a running timer adds nothing.       *)
C19_TotalsOverStoppedEntries ==
    [][\A c \in Clients :
         (FetchTimeSummary(c) /\ HasAccess(c)) =>
            /\ Val(summary'[c]).totalHours =
                   HoursHundredths(SumSeconds(StoppedOf(entries, clientProject[c])))
            /\ Val(summary'[c]).billableHours =
                   HoursHundredths(SumSeconds(BillableOf(entries, clientProject[c])))
    ]_vars

(* C20: the amount that ListEntries reports for an entry is                *)
(* durationSeconds / 3600 * (the entry's rate, else the project's, else    *)
(* 0) rounded to 2 decimals, and is computed only when the entry is        *)
(* billable: a non-billable entry gets no amount.                          *)
C20_AmountOnlyWhenBillable ==
    \A pid \in ProjectIds : \A x \in EntryDetails(entries, projectOwner[pid], pid) :
        IF x.billable /\ x.duration_seconds # Null
        THEN x.amount =
               Some(RoundDiv(Val(x.duration_seconds) *
                               EffectiveRate(x.hourly_rate, projectRate[pid]),
                             SecondsPerHour))
        ELSE x.amount = Null

(* The scenario's entries: entry 1 started at T0 = 0 in tab c1 on project  *)
(* p1, entry 2 started an hour later in tab c2 on project p2.              *)
ScenarioFirst == TimerRow(1, clientUser["c1"], clientProject["c1"], ClientNow("c1", 0))

ScenarioSecond ==
    TimerRow(2, clientUser["c2"], clientProject["c2"], ClientNow("c2", 2 * HalfHour))

ScenarioFirstStopped ==
    [ScenarioFirst EXCEPT !.is_running = FALSE, !.end_time = Some(2 * HalfHour),
                          !.duration_seconds = Some(SecondsPerHour)]

(* C21: a user starts a timer at T0 on project P (50 an hour), starts a    *)
(* second timer at T0 + 3600 s on project Q and stops it at T0 + 5400 s.   *)
(* Then entry 1 has durationSeconds 3600 and is not running, entry 2 runs  *)
(* from the second start to the stop and ends with durationSeconds 1800,   *)
(* and the totals of P are 1 hour, 1 billable hour and 50.00.              *)
C21_TwoTimersScenario ==
    [][/\ (/\ entries = {ScenarioFirst}
           /\ now = 2 * HalfHour
           /\ StartTimer("c2")) =>
              entries' = {ScenarioFirstStopped, ScenarioSecond}
       /\ (/\ entries = {ScenarioFirstStopped, ScenarioSecond}
           /\ now = 3 * HalfHour
           /\ timer["c2"] = Some(ScenarioSecond.id)
           /\ StopTimer("c2")) =>
              /\ \E r \in entries' :
                   /\ entries' = {ScenarioFirstStopped, r}
                   /\ r.id = ScenarioSecond.id
                   /\ ~r.is_running
                   /\ r.duration_seconds = Some(SecondsPerHour \div 2)
              /\ GetProjectTotalHours(entries', "u1", "p1") = HundredthsPerUnit
              /\ GetProjectBillableHours(entries', "u1", "p1") = HundredthsPerUnit
              /\ GetProjectBillableAmount(entries', "u1", "p1") = Val(projectRate["p1"])
    ]_vars

(* the scenario has run to its end and the owner's page shows P's totals *)
C21_Witness ==
    /\ last.op = "StopTimer"
    /\ now = 3 * HalfHour
    /\ ScenarioFirstStopped \in entries
    /\ \E r \in entries : r.id = ScenarioSecond.id /\ r.duration_seconds = Some(SecondsPerHour \div 2)
    /\ summary["c1"] = Some([totalHours |-> HundredthsPerUnit,
                             billableHours |-> HundredthsPerUnit,
                             billableAmount |-> Val(projectRate["p1"])])

(* the entries of the users other than u *)
OthersRows(es, u) == {r \in es : r.user_id # u}

(* C22: no operation of a user (StartTimer, StopTimer, AddManualEntry,     *)
(* DeleteEntry, with whatever entry id) changes or removes an entry of a   *)
(* different user; the force-stop of StartTimer touches the starting       *)
(* user's running entries only.  The statements are tried on the id of     *)
(* every stored entry and on an id no entry has.                           *)
C22_OtherUsersEntriesUntouched ==
    /\ [](\A u \in Users : \A id \in {r.id : r \in entries} \cup {nextId} :
            /\ OthersRows(DbUpdate(entries, u, id, StopPatch(now), now), u)
                  = OthersRows(entries, u)
            /\ OthersRows(DbDelete(entries, u, id), u) = OthersRows(entries, u))
    /\ [][entries' # entries => \A c \in Clients :
            (StartTimer(c) \/ StopTimer(c) \/ AddManualEntry(c) \/ DeleteEntry(c)) =>
               OthersRows(entries', clientUser[c]) = OthersRows(entries, clientUser[c])
       ]_vars

(* a user has started a timer while the other user's timer was running,    *)
(* and both run                                                            *)
C22_Witness ==
    /\ last.op = "StartTimer"
    /\ \E r1, r2 \in entries :
         /\ r1.user_id # r2.user_id
         /\ r1.is_running /\ r2.is_running
         /\ r1.id < r2.id

(* C23: every stopped entry has an endTime that is not earlier than its    *)
(* startTime, and so a durationSeconds >= 0, after any sequence of         *)
(* StartTimer, StopTimer and valid AddManualEntry, although the start and  *)
(* the stop are stamped by the tab's clock and the force-stop by the       *)
(* database clock.                                                         *)
C23_DurationNeverNegative ==
    \A r \in entries :
        r.end_time # Null =>
            /\ Val(r.end_time) >= r.start_time
            /\ Val(r.duration_seconds) >= 0

(* C24: ListEntries(projectId) called by a user returns every entry of the *)
(* project that the user owns, the user's running timer included, also     *)
(* when the user is not the owner of the project: the list that a tab of a *)
(* user with access to the project refetches after a start or an add holds *)
(* every entry of that user on that project.                               *)
C24_OwnEntriesListed ==
    [][\A c \in Clients :
         (/\ HasAccess(c)
          /\ StartTimer(c) \/ AddManualEntry(c)
          /\ last'.res = "ok") =>
            \A r \in entries' :
                (r.user_id = clientUser[c] /\ r.project_id = clientProject[c]) =>
                    \E e \in listed'[c] : e.id = r.id
    ]_vars

(* C25: GetRunningTimer discloses a running timer to its owner only: a     *)
(* caller who passes another user's id gets no entry, so that what one     *)
(* user sees through GetRunningTimer does not depend on whether another    *)
(* user has a timer running.                                               *)
C25_RunningTimerOnlyForOwner ==
    [][\A u \in Users :
         (CallGetRunningTimer(u) /\ last'.hit = "other") => last'.res = "none"
    ]_vars

(* the sum of the amounts of the listed rows xs *)
RECURSIVE SumAmounts(_)
SumAmounts(xs) ==
    IF xs = {} THEN 0
    ELSE LET x == CHOOSE y \in xs : TRUE
         IN  Val(x.amount) + SumAmounts(xs \ {x})

(* C26: for every project the billable amount of ProjectTotals equals the  *)
(* sum of the amounts that ListEntries reports for the project's billable  *)
(* entries with a non-null duration: the amounts of the entries, each      *)
(* rounded to 2 decimals, add up to the total, which is rounded once after *)
(* the sum.  Stated for the project's owner, who gets both.                *)
C26_TotalIsSumOfListedAmounts ==
    [][\A c \in Clients :
         (FetchTimeSummary(c) /\ projectOwner[clientProject[c]] = clientUser[c]) =>
            Val(summary'[c]).billableAmount =
                SumAmounts({x \in EntryDetails(entries, clientUser[c], clientProject[c]) :
                              x.billable /\ x.duration_seconds # Null})
    ]_vars

----------------------------------------------------------------------------
(* C27: once every answer and every realtime event on its way has arrived, *)
(* unreadCount is the number of items of the local list with read = false. *)
C27_UnreadCountMatchesList ==
    (feed = <<>> /\ responses = {}) => unreadCount = UnreadIn(notifications)

(* C28: the local notification list never holds two items with the same id *)
C28_NoDuplicateIds ==
    \A i, j \in 1..Len(notifications) :
        notifications[i].id = notifications[j].id => i = j

(* C29: a request makes the function call the email API only if the target *)
(* user has an email address and a preferences row with email_enabled =    *)
(* true; a POST for an unknown user is answered 404, one for a user whose  *)
(* preferences are missing or have email_enabled = false is answered 200   *)
(* with skipped = true, both without a call; and a call the email API did  *)
(* not accept is answered 500.                                             *)
C29_EmailOnlyWhenEnabled ==
    [][\A method \in {"OPTIONS", "POST"}, body \in Bodies, uid \in PayloadUsers,
          api \in ApiOutcomes :
          Serve(method, body, uid, api) =>
            /\ reply'.called = (outbox' # outbox)
            /\ outbox' # outbox =>
                  /\ uid \in AuthUsers /\ userEmail[uid] # Null
                  /\ prefs[uid] = Some(TRUE)
                  /\ outbox' = Append(outbox, [to |-> Val(userEmail[uid]), ok |-> api = "ok"])
            /\ (method = "POST" /\ body # "invalid" /\ uid \notin AuthUsers) =>
                  reply'.status = 404 /\ outbox' = outbox
            /\ (method = "POST" /\ body # "invalid" /\ uid \in AuthUsers
                  /\ userEmail[uid] # Null /\ prefs[uid] \in {Null, Some(FALSE)}) =>
                  reply'.status = 200 /\ reply'.skipped /\ outbox' = outbox
            /\ (reply'.called /\ api # "ok") => reply'.status = 500]_vars

C29_Witness ==
    /\ Len(outbox) >= 2 /\ outbox[1].ok /\ ~outbox[2].ok
    /\ reply.user_id = "u1" /\ reply.skipped /\ prefs["u1"] = Some(FALSE)

====
